---------------------------- MODULE Spec2Model ----------------------------
(***************************************************************************)
(* A model of babyai/models/vae_task_encoder.py (the feed-forward builder, *)
(* the VAE task encoder, the task decoder, the VAE container and the       *)
(* module's __main__ self-test) and of the save/evaluate skeleton of the   *)
(* training script 4.generate_tree_train_load_models.py.                   *)
(*                                                                         *)
(* A tensor is modelled by its shape, a sequence of naturals; a module by  *)
(* a record of its attributes; a call by a record                          *)
(* [raised |-> exception name or "none", value |-> result].                *)
(***************************************************************************)
EXTENDS Integers, Sequences, FiniteSets

VARIABLES
    module,         \* the module object the client holds (None before construction)
    ctor,           \* the constructor call that was made, with its arguments
    call,           \* the last forward call, with its input shapes
    result,         \* what the last forward call returned
    raised,         \* the exception the last operation raised, or "none"
    applied,        \* whether the last forward call ran its feed-forward stack(s)
    main,           \* the run of the module as a script (__main__)
    train           \* the run of the training script

vars == <<module, ctor, call, result, raised, applied, main, train>>

libvars == <<module, ctor, call, result, raised, applied, main>>

---------------------------------------------------------------------------
(* Bounds of the model and the inputs the actions draw from.               *)

MaxDim == 2

MaxHiddens == 2

Dims == 0 .. MaxDim

HiddenWidths == {1, 2}

Activations == {"relu", "tanh", "gelu"}

LeadSizes == {1, 2}

InputRanks == 0 .. 4

SeqsUpTo(S, n) == UNION {[1 .. k -> S] : k \in 0 .. n}

HiddensLists == SeqsUpTo(HiddenWidths, MaxHiddens)

\* The shapes of rank r with the given last-axis width: rank 0 has no axis.
ShapesOfRank(r, width) ==
    IF r = 0 THEN {<<>>}
    ELSE {lead \o <<width>> : lead \in [1 .. (r - 1) -> LeadSizes]}

LeadsOfRank(r) == IF r = 0 THEN {<<>>} ELSE [1 .. (r - 1) -> LeadSizes]

---------------------------------------------------------------------------
(* Values.                                                                 *)

None == [kind |-> "None"]

Ok(v) == [raised |-> "none", value |-> v]

Raise(e) == [raised |-> e, value |-> None]

Max(a, b) == IF a > b THEN a ELSE b

Min(a, b) == IF a < b THEN a ELSE b

Last(s) == s[Len(s)]

Front(s) == SubSeq(s, 1, Len(s) - 1)

---------------------------------------------------------------------------
(* Layers and build_sequential.                                            *)

Layer(type, n_in, n_out) == [type |-> type, in_features |-> n_in, out_features |-> n_out]

\* _init_layer(nn.Linear(in_features, out_features)): torch refuses a negative
\* width. (A zero width is a layer without weights; see Constructed.)
nn_Linear(n_in, n_out) ==
    IF n_in < 0 \/ n_out < 0 THEN Raise("RuntimeError")
    ELSE Ok(Layer("Linear", n_in, n_out))

LayerNorm(features) == Layer("LayerNorm", features, features)

Nonlin(nonlin) == Layer(nonlin, 0, 0)

select_nonlin_any(activation) ==
    IF activation = "tanh" THEN Ok("Tanh") ELSE Ok("ReLU")

\* if activation == "relu" ... elif activation == "tanh" ... else raise ValueError
select_nonlin(activation) ==
    IF activation = "relu" THEN Ok("ReLU")
    ELSE IF activation = "tanh" THEN Ok("Tanh")
    ELSE Raise("ValueError")

norm_after_never(features, layer_norm) == <<>>

\* if layer_norm: modules.append(LayerNorm(features))
norm_after(features, layer_norm) ==
    IF layer_norm THEN <<LayerNorm(features)>> ELSE <<>>

trailing_always(nonlin, output_activation) == <<Nonlin(nonlin)>>

\* if output_activation: modules.append(nonlin())
trailing(nonlin, output_activation) ==
    IF output_activation THEN <<Nonlin(nonlin)>> ELSE <<>>

\* for i in range(len(hiddens) - 1): nonlin, Linear(hiddens[i], hiddens[i+1]), norm
\* (i is the 1-based index of hiddens[i]; modules is the list built so far)
RECURSIVE hidden_loop(_, _, _, _, _)
hidden_loop(hiddens, i, nonlin, layer_norm, modules) ==
    IF i > Len(hiddens) - 1 THEN Ok(modules)
    ELSE LET lin == nn_Linear(hiddens[i], hiddens[i + 1]) IN
         IF lin.raised # "none" THEN lin
         ELSE hidden_loop(hiddens, i + 1, nonlin, layer_norm,
                          modules \o <<Nonlin(nonlin), lin.value>>
                                  \o norm_after(hiddens[i + 1], layer_norm))

Sequential(layers) == [kind |-> "Sequential", layers |-> layers]

build_sequential(num_inputs, hiddens, activation, layer_norm, output_activation) ==
    LET nl == select_nonlin(activation) IN
    IF nl.raised # "none" THEN nl
    ELSE IF ~(Len(hiddens) > 0) THEN Raise("AssertionError")
    ELSE LET first == nn_Linear(num_inputs, hiddens[1]) IN
         IF first.raised # "none" THEN first
         ELSE LET rest == hidden_loop(hiddens, 1, nl.value, layer_norm,
                                      <<first.value>> \o norm_after(hiddens[1], layer_norm))
              IN  IF rest.raised # "none" THEN rest
                  ELSE Ok(Sequential(rest.value \o trailing(nl.value, output_activation)))

\* The default of build_sequential's layer_norm parameter.
layer_norm_default == TRUE

\* The default of build_sequential's output_activation parameter.
output_activation_default == FALSE

---------------------------------------------------------------------------
(* The constructors.                                                       *)

\* self.use_rnn = False
use_rnn == FALSE

GRU(input_size, hidden_size) == Layer("GRU", input_size, hidden_size)

\* VAETaskEncoder.__init__; hiddens[0] of an empty list raises IndexError
\* while the arguments of the first build_sequential call are evaluated.
VAETaskEncoder_init(obs_dim, act_dim, rew_dim, task_embedding_dim, hiddens, activation, layer_norm) ==
    LET input_dim == obs_dim + act_dim + rew_dim
        Encoder(input_fc, rnn, output_fc) ==
            [kind |-> "VAETaskEncoder", use_rnn |-> use_rnn,
             task_emb_dim |-> task_embedding_dim, layer_norm |-> layer_norm,
             input_fc |-> input_fc, rnn |-> rnn, output_fc |-> output_fc]
    IN
    IF Len(hiddens) = 0 THEN Raise("IndexError")
    ELSE IF use_rnn THEN
        IF Len(hiddens) > 1 THEN
            LET i == build_sequential(input_dim, <<hiddens[1]>>, activation, layer_norm, TRUE) IN
            IF i.raised # "none" THEN i
            ELSE LET o == build_sequential(hiddens[1], Tail(hiddens) \o <<task_embedding_dim * 2>>,
                                           activation, layer_norm, output_activation_default) IN
                 IF o.raised # "none" THEN o
                 ELSE Ok(Encoder(i.value, GRU(hiddens[1], hiddens[1]), o.value))
        ELSE
            LET o == build_sequential(hiddens[1], hiddens \o <<task_embedding_dim * 2>>,
                                      activation, layer_norm_default, output_activation_default) IN
            IF o.raised # "none" THEN o
            ELSE Ok(Encoder(None, GRU(input_dim, hiddens[1]), o.value))
    ELSE
        LET i == build_sequential(input_dim, <<hiddens[1]>>, activation, layer_norm_default, TRUE) IN
        IF i.raised # "none" THEN i
        ELSE LET o == build_sequential(hiddens[1], Tail(hiddens) \o <<task_embedding_dim * 2>>,
                                       activation, layer_norm_default, TRUE) IN
             IF o.raised # "none" THEN o
             ELSE Ok(Encoder(i.value, None, o.value))

\* TaskDecoder.__init__
TaskDecoder_init(task_embedding_dim, obs_dim, act_dim, rew_dim, activation) ==
    LET d == build_sequential(task_embedding_dim + obs_dim + act_dim, <<obs_dim + rew_dim>>,
                              activation, layer_norm_default, output_activation_default) IN
    IF d.raised # "none" THEN d
    ELSE Ok([kind |-> "TaskDecoder", obs_dim |-> obs_dim, rew_dim |-> rew_dim,
             decoder |-> d.value])

\* VAE.__init__: the decoder's fourth argument is n_agents.
VAE_init(task_emb_dim, obs_dim, act_dim, rew_dim, n_agents, hiddens, activation, layer_norm) ==
    LET e == VAETaskEncoder_init(obs_dim, act_dim, rew_dim, task_emb_dim, hiddens, activation, layer_norm) IN
    IF e.raised # "none" THEN e
    ELSE LET d == TaskDecoder_init(task_emb_dim, obs_dim, act_dim, n_agents, activation) IN
         IF d.raised # "none" THEN d
         ELSE Ok([kind |-> "VAE", encoder |-> e.value, decoder |-> d.value])

---------------------------------------------------------------------------
(* Tensor operations, on shapes.                                           *)

RECURSIVE SumLast(_)
SumLast(shapes) ==
    IF Len(shapes) = 0 THEN 0 ELSE Last(shapes[1]) + SumLast(Tail(shapes))

\* torch.cat(tensors, dim=-1): a zero-dimensional tensor cannot be
\* concatenated; empty 1-D tensors are skipped; the others must agree on
\* their rank and on every axis but the last.
torch_cat(tensors) ==
    LET kept == SelectSeq(tensors, LAMBDA t : t # <<0>>) IN
    IF \E i \in 1 .. Len(tensors) : Len(tensors[i]) = 0 THEN Raise("RuntimeError")
    ELSE IF Len(kept) = 0 THEN Ok(<<0>>)
    ELSE IF \E i \in 1 .. Len(kept) : Front(kept[i]) # Front(kept[1]) THEN Raise("RuntimeError")
    ELSE Ok(Front(kept[1]) \o <<SumLast(kept)>>)

\* The shape two tensors broadcast to (an elementwise binary operation).
broadcast(a, b) ==
    LET n == Max(Len(a), Len(b))
        pa == [i \in 1 .. n |-> IF i > n - Len(a) THEN a[i - (n - Len(a))] ELSE 1]
        pb == [i \in 1 .. n |-> IF i > n - Len(b) THEN b[i - (n - Len(b))] ELSE 1]
    IN  IF \E i \in 1 .. n : pa[i] # pb[i] /\ pa[i] # 1 /\ pb[i] # 1 THEN Raise("RuntimeError")
        ELSE Ok([i \in 1 .. n |-> IF pa[i] = 1 THEN pb[i] ELSE pa[i]])

\* The length of s[:k] for a Python sequence of length n.
py_slice_to(n, k) == IF k >= 0 THEN Min(k, n) ELSE Max(n + k, 0)

py_slice_from_whole(n, k) == n

\* The length of s[k:] for a Python sequence of length n.
py_slice_from(n, k) == n - (IF k >= 0 THEN Min(k, n) ELSE Max(n + k, 0))

\* x[:, ..., :k] with the slice on the given axis (1-based): more indices
\* than the tensor has axes is an IndexError.
index_to(x, axis, k) ==
    IF Len(x) < axis THEN Raise("IndexError")
    ELSE Ok([x EXCEPT ![axis] = py_slice_to(x[axis], k)])

\* x[:, ..., k:] with the slice on the given axis (1-based).
index_from(x, axis, k) ==
    IF Len(x) < axis THEN Raise("IndexError")
    ELSE Ok([x EXCEPT ![axis] = py_slice_from(x[axis], k)])

unsqueeze0(x) == <<1>> \o x

squeeze0_kept(x) == x

\* x.squeeze(0): the first axis is removed when its size is 1.
squeeze0(x) == IF Len(x) > 0 /\ x[1] = 1 THEN Tail(x) ELSE x

\* One layer applied to a tensor: a Linear maps the last axis from
\* in_features to out_features; normalisation and nonlinearities keep the shape.
layer_forward(layer, x) ==
    IF layer.type = "Linear" THEN
        IF Len(x) = 0 \/ Last(x) # layer.in_features THEN Raise("RuntimeError")
        ELSE Ok(Front(x) \o <<layer.out_features>>)
    ELSE Ok(x)

\* nn.Sequential.forward: the layers in order, from layer i on.
RECURSIVE Sequential_forward_from(_, _, _)
Sequential_forward_from(layers, i, x) ==
    IF i > Len(layers) THEN Ok(x)
    ELSE LET y == layer_forward(layers[i], x) IN
         IF y.raised # "none" THEN y
         ELSE Sequential_forward_from(layers, i + 1, y.value)

Sequential_forward(net, x) == Sequential_forward_from(net.layers, 1, x)

\* nn.GRU.forward on a [seq, batch, features] input: the output sequence.
GRU_forward(rnn, x) ==
    IF Len(x) # 3 \/ Last(x) # rnn.in_features THEN Raise("RuntimeError")
    ELSE Ok(Front(x) \o <<rnn.out_features>>)

---------------------------------------------------------------------------
(* The forward passes. A forward result also records whether the module's  *)
(* feed-forward stack had been applied when the call ended.                *)

Returned(v) == [raised |-> "none", value |-> v, applied |-> TRUE]

Failed(e, stack_applied) == [raised |-> e, value |-> None, applied |-> stack_applied]

\* VAETaskEncoder.reparameterise: mu + eps * std, eps and std shaped as log_var.
reparameterise(mu, log_var) == broadcast(mu, log_var)

\* VAETaskEncoder.forward(obs, act, rew), hiddens=None, written as the
\* stages of the method, last stage first; each stage receives what the
\* statements before it computed.

\* return task_emb, mu, log_var, z (after the concatenation and the sampling)
encoder_return(mu, log_var, task_emb, z) ==
    IF task_emb.raised # "none" THEN Failed(task_emb.raised, TRUE)
    ELSE IF z.raised # "none" THEN Failed(z.raised, TRUE)
    ELSE Returned([task_emb |-> task_emb.value, mu |-> mu, log_var |-> log_var, z |-> z.value])

\* task_emb = torch.cat([mu, log_var], dim=-1); z = self.reparameterise(mu, log_var)
encoder_sample(mu, log_var) ==
    IF mu.raised # "none" THEN Failed(mu.raised, TRUE)
    ELSE IF log_var.raised # "none" THEN Failed(log_var.raised, TRUE)
    ELSE encoder_return(mu.value, log_var.value,
                        torch_cat(<<mu.value, log_var.value>>),
                        reparameterise(mu.value, log_var.value))

\* if x.dim() > 2: x[:, :, :k], x[:, :, k:] else: x[:, :k], x[:, k:]
encoder_split(self, x) ==
    IF x.raised # "none" THEN Failed(x.raised, TRUE)
    ELSE LET axis == IF Len(x.value) > 2 THEN 3 ELSE 2 IN
         encoder_sample(index_to(x.value, axis, self.task_emb_dim),
                        index_from(x.value, axis, self.task_emb_dim))

\* if seq_length is not None and seq_length == 1: output = output.squeeze(0);
\* x = self.output_fc(output)   (seq_length 0 stands for None)
encoder_output(self, seq_length, rnn_out) ==
    IF rnn_out.raised # "none" THEN Failed(rnn_out.raised, TRUE)
    ELSE encoder_split(self,
            Sequential_forward(self.output_fc,
                               IF seq_length # 0 /\ seq_length = 1
                               THEN squeeze0(rnn_out.value) ELSE rnn_out.value))

\* if len(x.shape) < 3: seq_length = 1; x = x.unsqueeze(0)  else: seq_length = None;
\* then output = self.rnn(x, hiddens) or output = x
encoder_reshape(self, x) ==
    IF x.raised # "none" THEN Failed(x.raised, FALSE)
    ELSE LET reshaped == Len(x.value) < 3
             x2       == IF reshaped THEN unsqueeze0(x.value) ELSE x.value
         IN  encoder_output(self, IF reshaped THEN 1 ELSE 0,
                            IF self.use_rnn THEN GRU_forward(self.rnn, x2) ELSE Ok(x2))

\* if self.input_fc is not None: x = self.input_fc(x)
encoder_input(self, x) ==
    IF x.raised # "none" THEN Failed(x.raised, FALSE)
    ELSE encoder_reshape(self,
            IF self.input_fc.kind # "None"
            THEN Sequential_forward(self.input_fc, x.value) ELSE x)

\* x = torch.cat([obs, act, rew], dim=-1) and the rest of the method
VAETaskEncoder_forward(self, obs, act, rew) ==
    encoder_input(self, torch_cat(<<obs, act, rew>>))

\* if out.dim() == 2: ... elif out.dim() == 3: ...; return obs_pred, rew_pred
\* (obs_pred and rew_pred are bound only when out has rank 2 or 3)
decoder_split(self, out) ==
    IF out.raised # "none" THEN Failed(out.raised, FALSE)
    ELSE IF Len(out.value) = 2 \/ Len(out.value) = 3 THEN
        Returned([obs_pred |-> index_to(out.value, Len(out.value), self.obs_dim).value,
                  rew_pred |-> index_from(out.value, Len(out.value), self.obs_dim).value])
    ELSE Failed("UnboundLocalError", TRUE)

\* out = self.decoder(x)
decoder_apply(self, x) ==
    IF x.raised # "none" THEN Failed(x.raised, FALSE)
    ELSE decoder_split(self, Sequential_forward(self.decoder, x.value))

\* x = torch.cat([task_emb, obs, act], dim=-1) and the rest of the method
TaskDecoder_forward(self, task_emb, obs, act) ==
    decoder_apply(self, torch_cat(<<task_emb, obs, act>>))

---------------------------------------------------------------------------
(* The module run as a script: the __main__ block.                         *)

main_obs_dim == 147

main_act_dim == 7

main_rew_dim == 1

main_n_agents == 1

main_task_emb_dim == 10

main_hidden == 64

main_batch == 10

\* A call VAETaskEncoder(*args): __init__ takes seven positional arguments
\* after self, none of them with a default.
call_VAETaskEncoder(args) ==
    IF Len(args) # 7 THEN Raise("TypeError")
    ELSE VAETaskEncoder_init(args[1], args[2], args[3], args[4], args[5], args[6], args[7])

\* A call TaskDecoder(*args): five positional arguments after self.
call_TaskDecoder(args) ==
    IF Len(args) # 5 THEN Raise("TypeError")
    ELSE TaskDecoder_init(args[1], args[2], args[3], args[4], args[5])

MainState(pc, line, exc, pred_obss, pred_rews) ==
    [pc |-> pc, line |-> line, raised |-> exc,
     joint_pred_obss |-> pred_obss, joint_pred_rews |-> pred_rews]

main_obs == <<main_batch, main_obs_dim>>

main_act_onehot == <<main_batch, main_act_dim>>

main_rew == <<main_batch, main_rew_dim>>

main_joint_next_obss == <<main_batch, main_obs_dim>>

main_joint_rews == <<main_batch, main_rew_dim>>

\* The script, written as its stages, last stage first. An uncaught
\* exception ends the script at the statement that raises.

\* obs_loss, rew_loss (the differences broadcast), then the optimiser step
main_losses(pred, obs_diff, rew_diff) ==
    IF obs_diff.raised # "none" THEN MainState("terminated", 198, obs_diff.raised, None, None)
    ELSE IF rew_diff.raised # "none" THEN MainState("terminated", 199, rew_diff.raised, None, None)
    ELSE MainState("done", 206, "none", pred.obs_pred, pred.rew_pred)

\* after joint_pred_obss, joint_pred_rews = decoder(task_emb_train, obs, act_onehot)
main_decoded(d) ==
    IF d.raised # "none" THEN MainState("terminated", 197, d.raised, None, None)
    ELSE main_losses(d.value, broadcast(main_joint_next_obss, d.value.obs_pred),
                              broadcast(main_joint_rews, d.value.rew_pred))

\* after task_emb, mu, log_var, z = vae_task_encoder(obs, act_onehot, rew)
main_encoded(decoder, e) ==
    IF e.raised # "none" THEN MainState("terminated", 191, e.raised, None, None)
    ELSE main_decoded(TaskDecoder_forward(decoder, e.value.z, main_obs, main_act_onehot))

\* after decoder = TaskDecoder(task_emb_dim, obs_dim, act_dim, n_agents, activation)
main_with_decoder(vae_task_encoder, dec) ==
    IF dec.raised # "none" THEN MainState("terminated", 182, dec.raised, None, None)
    ELSE main_encoded(dec.value,
                      VAETaskEncoder_forward(vae_task_encoder, main_obs, main_act_onehot, main_rew))

\* after vae_task_encoder = VAETaskEncoder(obs_dim, act_dim, rew_dim, task_emb_dim, hiddens, activation)
main_with_encoder(enc) ==
    IF enc.raised # "none" THEN MainState("terminated", 181, enc.raised, None, None)
    ELSE main_with_decoder(enc.value,
                           call_TaskDecoder(<<main_task_emb_dim, main_obs_dim, main_act_dim,
                                              main_n_agents, "relu">>))

run_main ==
    main_with_encoder(call_VAETaskEncoder(<<main_obs_dim, main_act_dim, main_rew_dim,
                                            main_task_emb_dim, <<main_hidden>>, "relu">>))

---------------------------------------------------------------------------
(* The client of the module: one construction, then one forward call (a    *)
(* forward call changes nothing of the module, so a second call reaches    *)
(* no state the first does not).                                           *)

NotRun == MainState("notrun", 0, "none", None, None)

Fresh == module.kind = "None" /\ ctor.kind = "None" /\ raised = "none" /\ main.pc = "notrun"

\* Whether a module holds a Linear layer one of whose widths is zero.
has_empty_linear(m) ==
    LET in_stack(net) ==
            /\ net.kind = "Sequential"
            /\ \E k \in 1 .. Len(net.layers) :
                  /\ net.layers[k].type = "Linear"
                  /\ (net.layers[k].in_features = 0 \/ net.layers[k].out_features = 0)
        in_encoder(e) == in_stack(e.input_fc) \/ in_stack(e.output_fc)
        in_decoder(d) == in_stack(d.decoder)
    IN  CASE m.kind = "Sequential"     -> in_stack(m)
          [] m.kind = "VAETaskEncoder" -> in_encoder(m)
          [] m.kind = "TaskDecoder"    -> in_decoder(m)
          [] m.kind = "VAE"            -> in_encoder(m.encoder) \/ in_decoder(m.decoder)
          [] OTHER                     -> FALSE

\* The outcome r of a constructor call c. Whether torch builds and
\* initialises a Linear one of whose widths is zero depends on the torch
\* installed: such a construction either succeeds or raises from the
\* initialisation (the only other exceptions of a construction are raised
\* before its first Linear is built).
Constructed(c, r) ==
    /\ ctor' = c
    /\ \/ /\ module' = r.value
          /\ raised' = r.raised
       \/ /\ r.raised = "none"
          /\ has_empty_linear(r.value)
          /\ module' = None
          /\ raised' = "ZeroDivisionError"
    /\ UNCHANGED <<call, result, applied, main, train>>

Called(c, r) ==
    /\ call' = c
    /\ result' = r.value
    /\ raised' = r.raised
    /\ applied' = r.applied
    /\ UNCHANGED <<module, ctor, main, train>>

BuildSequential ==
    /\ Fresh
    /\ \E num_inputs \in Dims, hiddens \in HiddensLists, activation \in Activations,
          layer_norm \in BOOLEAN, output_activation \in BOOLEAN :
          Constructed([kind |-> "build_sequential", num_inputs |-> num_inputs,
                       hiddens |-> hiddens, activation |-> activation,
                       layer_norm |-> layer_norm, output_activation |-> output_activation],
                      build_sequential(num_inputs, hiddens, activation, layer_norm, output_activation))

NewEncoder ==
    /\ Fresh
    /\ \E obs_dim \in Dims, act_dim \in Dims, rew_dim \in Dims, task_embedding_dim \in Dims,
          hiddens \in HiddensLists, activation \in Activations, layer_norm \in BOOLEAN :
          Constructed([kind |-> "VAETaskEncoder", obs_dim |-> obs_dim, act_dim |-> act_dim,
                       rew_dim |-> rew_dim, task_embedding_dim |-> task_embedding_dim,
                       hiddens |-> hiddens, activation |-> activation, layer_norm |-> layer_norm],
                      VAETaskEncoder_init(obs_dim, act_dim, rew_dim, task_embedding_dim,
                                          hiddens, activation, layer_norm))

NewDecoder ==
    /\ Fresh
    /\ \E task_embedding_dim \in Dims, obs_dim \in Dims, act_dim \in Dims, rew_dim \in Dims,
          activation \in Activations :
          Constructed([kind |-> "TaskDecoder", task_embedding_dim |-> task_embedding_dim,
                       obs_dim |-> obs_dim, act_dim |-> act_dim, rew_dim |-> rew_dim,
                       activation |-> activation],
                      TaskDecoder_init(task_embedding_dim, obs_dim, act_dim, rew_dim, activation))

NewVAE ==
    /\ Fresh
    /\ \E task_emb_dim \in Dims, obs_dim \in Dims, act_dim \in Dims, rew_dim \in Dims,
          n_agents \in Dims, hiddens \in HiddensLists, activation \in Activations,
          layer_norm \in BOOLEAN :
          Constructed([kind |-> "VAE", task_embedding_dim |-> task_emb_dim, obs_dim |-> obs_dim,
                       act_dim |-> act_dim, rew_dim |-> rew_dim, n_agents |-> n_agents,
                       hiddens |-> hiddens, activation |-> activation, layer_norm |-> layer_norm],
                      VAE_init(task_emb_dim, obs_dim, act_dim, rew_dim, n_agents,
                               hiddens, activation, layer_norm))

\* net(x) on a stack built by build_sequential, x of width num_inputs.
SequentialForward ==
    /\ module.kind = "Sequential"
    /\ call.kind = "None"
    /\ \E r \in InputRanks : \E x \in ShapesOfRank(r, ctor.num_inputs) :
          LET y == Sequential_forward(module, x) IN
          Called([kind |-> "Sequential.forward", x |-> x],
                 [raised |-> y.raised, value |-> y.value, applied |-> y.raised = "none"])

\* encoder(obs, act, rew): the three inputs share their leading axes and
\* have the declared widths.
EncoderForward ==
    /\ module.kind = "VAETaskEncoder"
    /\ call.kind = "None"
    /\ \E r \in InputRanks : \E lead \in LeadsOfRank(r) :
          LET self == module
              obs  == IF r = 0 THEN <<>> ELSE lead \o <<ctor.obs_dim>>
              act  == IF r = 0 THEN <<>> ELSE lead \o <<ctor.act_dim>>
              rew  == IF r = 0 THEN <<>> ELSE lead \o <<ctor.rew_dim>>
          IN  Called([kind |-> "VAETaskEncoder.forward", obs |-> obs, act |-> act, rew |-> rew],
                     VAETaskEncoder_forward(self, obs, act, rew))

\* decoder(task_emb, obs, act)
DecoderForward ==
    /\ module.kind = "TaskDecoder"
    /\ call.kind = "None"
    /\ \E r \in InputRanks : \E lead \in LeadsOfRank(r) :
          LET self     == module
              task_emb == IF r = 0 THEN <<>> ELSE lead \o <<ctor.task_embedding_dim>>
              obs      == IF r = 0 THEN <<>> ELSE lead \o <<ctor.obs_dim>>
              act      == IF r = 0 THEN <<>> ELSE lead \o <<ctor.act_dim>>
          IN  Called([kind |-> "TaskDecoder.forward", task_emb |-> task_emb, obs |-> obs, act |-> act],
                     TaskDecoder_forward(self, task_emb, obs, act))

\* The decoder a VAE owns applied to the sample z its encoder returned.
vae_decode(vae, e, obs, act) ==
    IF e.raised # "none" THEN e
    ELSE TaskDecoder_forward(vae.decoder, e.value.z, obs, act)

\* The use of a VAE on one batch of transitions: z from vae.encoder(obs, act, rew),
\* then vae.decoder(z, obs, act).
VAEReconstruct ==
    /\ module.kind = "VAE"
    /\ call.kind = "None"
    /\ \E lead \in LeadsOfRank(2) :
          LET obs == lead \o <<ctor.obs_dim>>
              act == lead \o <<ctor.act_dim>>
              rew == lead \o <<ctor.rew_dim>>
          IN  Called([kind |-> "VAE.reconstruct", obs |-> obs, act |-> act, rew |-> rew],
                     vae_decode(module, VAETaskEncoder_forward(module.encoder, obs, act, rew),
                                obs, act))

\* python vae_task_encoder.py
Main ==
    /\ Fresh
    /\ main' = run_main
    /\ UNCHANGED <<module, ctor, call, result, raised, applied, train>>

---------------------------------------------------------------------------
(* The training script. Rates and means over the validation episodes are   *)
(* kept as sums over the ValEpisodes episodes (the mean times ValEpisodes).*)

MaxFrames == 3

MaxInterval == 2

ValEpisodes == 2

MaxReturn == 2

\* logs["num_frames"] of one algo.update_parameters(), in units of one update.
FramesPerUpdate == 1

EpisodeReturns == 0 .. MaxReturn

RECURSIVE SumSeq(_)
SumSeq(s) == IF Len(s) = 0 THEN 0 ELSE s[1] + SumSeq(Tail(s))

\* np.mean(logs["return_per_episode"]), times the number of episodes
mean_return_of(return_per_episode) == SumSeq(return_per_episode)

\* np.mean([1 if r > 0 else 0 for r in logs['return_per_episode']]), times the number of episodes
success_rate_of(return_per_episode) ==
    SumSeq([k \in 1 .. Len(return_per_episode) |-> IF return_per_episode[k] > 0 THEN 1 ELSE 0])

TrainNotRun ==
    [pc |-> "notrun", save_interval |-> 0, log_interval |-> 1, frames |-> 0,
     i |-> 0, num_frames |-> 0, csv_rows |-> 0,
     model_saves |-> 0, vocab_saves |-> 0, status_saves |-> 0,
     best_saves |-> 0, best_saved |-> <<>>,
     best_success_rate |-> 0, best_mean_return |-> 0]

\* The script after argument parsing: status = {'i': 0, 'num_frames': 0},
\* nothing written yet.
TrainStart(save_interval, log_interval, frames) ==
    [TrainNotRun EXCEPT !.pc = "start", !.save_interval = save_interval,
                        !.log_interval = log_interval, !.frames = frames]

save_always(save_interval, i) == i % Max(save_interval, 1) = 0

\* if args.save_interval > 0 and status['i'] % args.save_interval == 0
save_due(save_interval, i) == save_interval > 0 /\ i % save_interval = 0

\* The statements before the loop that write: obss_preprocessor.vocab.save()
\* and utils.save_model(acmodel, args.model), whatever the save interval.
TrainSetup ==
    /\ train.pc = "start"
    /\ train' = [train EXCEPT !.pc = "loop",
                              !.vocab_saves = @ + 1,
                              !.model_saves = @ + 1]
    /\ UNCHANGED libvars

\* The block under the save test: vocabulary, status.json and model are
\* written, the model is evaluated and saved as '_best' when it improves.
save_and_evaluate(t, return_per_episode) ==
    LET mean_return  == mean_return_of(return_per_episode)
        success_rate == success_rate_of(return_per_episode)
        first  == success_rate > t.best_success_rate
        second == ~first /\ success_rate = t.best_success_rate /\ mean_return > t.best_mean_return
        save_model == first \/ second
    IN  [t EXCEPT !.vocab_saves = @ + 1 + (IF save_model THEN 1 ELSE 0),
                  !.status_saves = @ + 1,
                  !.model_saves = @ + 1,
                  !.best_success_rate = IF first THEN success_rate ELSE @,
                  !.best_mean_return = IF second THEN mean_return ELSE @,
                  !.best_saves = @ + (IF save_model THEN 1 ELSE 0),
                  !.best_saved = IF save_model THEN <<success_rate, mean_return>> ELSE @]

\* One iteration of: while status['num_frames'] < args.frames
TrainUpdate ==
    /\ train.pc = "loop"
    /\ train.num_frames < train.frames
    /\ \E return_per_episode \in [1 .. ValEpisodes -> EpisodeReturns] :
          LET i == train.i + 1
              t == [train EXCEPT !.num_frames = @ + FramesPerUpdate,
                                 !.i = i,
                                 !.csv_rows = @ + (IF i % train.log_interval = 0 THEN 1 ELSE 0)]
          IN  train' = IF save_due(train.save_interval, i)
                       THEN save_and_evaluate(t, return_per_episode)
                       ELSE t
    /\ UNCHANGED libvars

\* The loop condition fails: the script ends.
TrainFinish ==
    /\ train.pc = "loop"
    /\ ~(train.num_frames < train.frames)
    /\ train' = [train EXCEPT !.pc = "done"]
    /\ UNCHANGED libvars

---------------------------------------------------------------------------
(* Specifications.                                                         *)

LibInit ==
    /\ module = None
    /\ ctor = None
    /\ call = None
    /\ result = None
    /\ raised = "none"
    /\ applied = FALSE
    /\ main = NotRun

Init == LibInit /\ train = TrainNotRun

Next ==
    \/ BuildSequential
    \/ NewEncoder
    \/ NewDecoder
    \/ NewVAE
    \/ SequentialForward
    \/ EncoderForward
    \/ DecoderForward
    \/ VAEReconstruct
    \/ Main

Spec == Init /\ [][Next]_vars

TrainInit ==
    /\ LibInit
    /\ \E save_interval \in 0 .. MaxInterval, log_interval \in 1 .. MaxInterval,
          frames \in 0 .. MaxFrames :
          train = TrainStart(save_interval, log_interval, frames)

TrainNext == TrainSetup \/ TrainUpdate \/ TrainFinish

TrainSpec == TrainInit /\ [][TrainNext]_vars

---------------------------------------------------------------------------
(* Vocabulary of the properties.                                           *)

RecognisedActivations == {"relu", "tanh"}

\* The constructor arguments the specification calls valid.
ValidEncoderArgs(c) ==
    /\ c.obs_dim > 0 /\ c.act_dim > 0 /\ c.rew_dim > 0 /\ c.task_embedding_dim > 0
    /\ Len(c.hiddens) > 0
    /\ \A k \in 1 .. Len(c.hiddens) : c.hiddens[k] > 0
    /\ c.activation \in RecognisedActivations

ValidDecoderArgs(c) ==
    /\ c.task_embedding_dim > 0 /\ c.obs_dim > 0 /\ c.act_dim > 0 /\ c.rew_dim > 0
    /\ c.activation \in RecognisedActivations

\* The exceptions of the code that the specification's error kinds can name.
UnsupportedActivation == "ValueError"

DimensionConfigurationErrors == {"AssertionError", "IndexError", "ZeroDivisionError", "RuntimeError"}

IsLinear(layer) == layer.type = "Linear"

IsNorm(layer) == layer.type = "LayerNorm"

IsNonlin(layer) == layer.type \in {"ReLU", "Tanh"}

\* The width a stack's last linear projection produces.
RawOutputWidth(net) ==
    LET ks == {k \in 1 .. Len(net.layers) : IsLinear(net.layers[k])}
        k  == CHOOSE m \in ks : \A n \in ks : n <= m
    IN  net.layers[k].out_features

\* The stack the specification describes: per entry of hiddens, in order,
\* linear, normalisation (iff layer_norm), nonlinearity (after the last
\* entry iff output_activation), the widths chained from num_inputs.
RECURSIVE DescribedStack(_, _, _, _, _, _)
DescribedStack(n_in, hiddens, k, nonlin, layer_norm, output_activation) ==
    IF k > Len(hiddens) THEN <<>>
    ELSE <<Layer("Linear", n_in, hiddens[k])>>
         \o (IF layer_norm THEN <<Layer("LayerNorm", hiddens[k], hiddens[k])>> ELSE <<>>)
         \o (IF k < Len(hiddens) \/ output_activation THEN <<Layer(nonlin, 0, 0)>> ELSE <<>>)
         \o DescribedStack(hiddens[k], hiddens, k + 1, nonlin, layer_norm, output_activation)

---------------------------------------------------------------------------
(* C1. For valid constructor arguments and a rank-2 or rank-3 input, the   *)
(* encoder's forward returns mean and log_variance of last-axis width      *)
(* task_embedding_dim and task_embedding of width 2 * task_embedding_dim,  *)
(* each with exactly the leading axes of the input (a rank-2 input gives   *)
(* rank-2 outputs, a rank-3 input rank-3 outputs).                         *)
C1_EncoderShapes ==
    (/\ call.kind = "VAETaskEncoder.forward"
     /\ ValidEncoderArgs(ctor)
     /\ Len(call.obs) \in {2, 3})
    => /\ raised = "none"
       /\ result.mu = Front(call.obs) \o <<ctor.task_embedding_dim>>
       /\ result.log_var = Front(call.obs) \o <<ctor.task_embedding_dim>>
       /\ result.task_emb = Front(call.obs) \o <<2 * ctor.task_embedding_dim>>

C1_Witness ==
    /\ call.kind = "VAETaskEncoder.forward"
    /\ ValidEncoderArgs(ctor)
    /\ Len(ctor.hiddens) = 2
    /\ call.obs = <<1, ctor.obs_dim>>
    /\ raised = "none"
    /\ result.mu = <<1, ctor.task_embedding_dim>>
    /\ result.task_emb = <<1, 2 * ctor.task_embedding_dim>>

(* C2. For valid constructor arguments and a rank-2 or rank-3 input, the   *)
(* decoder's forward returns predicted_observation of last-axis width      *)
(* obs_dim and predicted_reward of width rew_dim, the two widths summing   *)
(* to the width of the decoder stack's raw output, obs_dim + rew_dim, with *)
(* the leading axes of the input.                                          *)
C2_DecoderSplit ==
    (/\ call.kind = "TaskDecoder.forward"
     /\ ValidDecoderArgs(ctor)
     /\ Len(call.obs) \in {2, 3})
    => /\ raised = "none"
       /\ result.obs_pred = Front(call.obs) \o <<ctor.obs_dim>>
       /\ result.rew_pred = Front(call.obs) \o <<ctor.rew_dim>>
       /\ Last(result.obs_pred) + Last(result.rew_pred) = RawOutputWidth(module.decoder)
       /\ RawOutputWidth(module.decoder) = ctor.obs_dim + ctor.rew_dim

C2_Witness ==
    /\ call.kind = "TaskDecoder.forward"
    /\ ValidDecoderArgs(ctor)
    /\ ctor.obs_dim = 2 /\ ctor.rew_dim = 1
    /\ Len(call.obs) = 3
    /\ raised = "none"
    /\ result.obs_pred = Front(call.obs) \o <<2>>
    /\ result.rew_pred = Front(call.obs) \o <<1>>

(* C3. Constructing an encoder or a decoder with an empty hiddens list or  *)
(* with a non-positive declared dimension (obs_dim = 0) fails at           *)
(* construction with a dimension-configuration error, and no module is     *)
(* produced. Stated for the claim's own cases, every other argument valid: *)
(* a construction whose only defect is the empty hiddens or the            *)
(* non-positive obs_dim.                                                   *)
C3_DegenerateRejected ==
    /\ (/\ ctor.kind = "VAETaskEncoder"
        /\ ctor.act_dim > 0 /\ ctor.rew_dim > 0 /\ ctor.task_embedding_dim > 0
        /\ ctor.activation \in RecognisedActivations
        /\ (Len(ctor.hiddens) = 0 \/ ctor.obs_dim <= 0))
       => (module.kind = "None" /\ raised \in DimensionConfigurationErrors)
    /\ (/\ ctor.kind = "TaskDecoder"
        /\ ctor.act_dim > 0 /\ ctor.rew_dim > 0 /\ ctor.task_embedding_dim > 0
        /\ ctor.activation \in RecognisedActivations
        /\ ctor.obs_dim <= 0)
       => (module.kind = "None" /\ raised \in DimensionConfigurationErrors)

(* C4, as stated. Building a stack, an encoder or a decoder with an        *)
(* activation other than relu or tanh fails at construction with the       *)
(* unsupported-activation error, for every value of the other arguments.   *)
C4_AsStated ==
    (/\ ctor.kind \in {"build_sequential", "VAETaskEncoder", "TaskDecoder"}
     /\ ctor.activation \notin RecognisedActivations)
    => (module.kind = "None" /\ raised = UnsupportedActivation)

(* C4, amended. Building a stack or a decoder with an activation other     *)
(* than relu or tanh fails with the unsupported-activation error for every *)
(* value of the other arguments; building an encoder with one does so      *)
(* whenever hiddens is not empty (with an empty hiddens the encoder fails  *)
(* before, with an IndexError); relu and tanh never raise that error.      *)
C4_UnsupportedActivation ==
    /\ (/\ ctor.kind \in {"build_sequential", "TaskDecoder"}
        /\ ctor.activation \notin RecognisedActivations)
       => (module.kind = "None" /\ raised = UnsupportedActivation)
    /\ (/\ ctor.kind = "VAETaskEncoder"
        /\ ctor.activation \notin RecognisedActivations)
       => /\ module.kind = "None"
          /\ raised = IF Len(ctor.hiddens) = 0 THEN "IndexError" ELSE UnsupportedActivation
    /\ (/\ ctor.kind \in {"build_sequential", "VAETaskEncoder", "TaskDecoder"}
        /\ ctor.activation \in RecognisedActivations
        /\ call.kind = "None")
       => raised # UnsupportedActivation

C4_Witness ==
    /\ ctor.kind = "VAETaskEncoder"
    /\ ctor.activation = "gelu"
    /\ Len(ctor.hiddens) > 0
    /\ ctor.obs_dim = 0
    /\ module.kind = "None"
    /\ raised = UnsupportedActivation

(* C5. A decoder forward call whose input rank is neither 2 nor 3 fails,   *)
(* the failure being detected before the decoder stack is applied, and     *)
(* returns no predictions.                                                 *)
C5_RankCheckedFirst ==
    (/\ call.kind = "TaskDecoder.forward"
     /\ ValidDecoderArgs(ctor)
     /\ Len(call.obs) \notin {2, 3})
    => (raised # "none" /\ ~applied /\ result = None)

(* C6. The VAE container builds its decoder from the same dimensionality   *)
(* arguments as its encoder: the decoder is constructed with the           *)
(* container's rew_dim, so its predicted reward has width rew_dim.         *)
C6_SharedDimensions ==
    /\ (module.kind = "VAE" /\ ValidEncoderArgs(ctor) /\ ctor.n_agents > 0)
       => /\ module.decoder.obs_dim = ctor.obs_dim
          /\ module.decoder.rew_dim = ctor.rew_dim
          /\ RawOutputWidth(module.decoder.decoder) = ctor.obs_dim + ctor.rew_dim
    /\ (/\ call.kind = "VAE.reconstruct" /\ ValidEncoderArgs(ctor) /\ ctor.n_agents > 0
        /\ raised = "none")
       => Last(result.rew_pred) = ctor.rew_dim

(* C7. The module's __main__ self-test runs to its end without raising and *)
(* produces predicted_observation of shape [10, 147] and predicted_reward  *)
(* of shape [10, 1].                                                       *)
C7_SelfTestRuns ==
    main.pc # "notrun"
    => /\ main.pc = "done"
       /\ main.raised = "none"
       /\ main.joint_pred_obss = <<main_batch, main_obs_dim>>
       /\ main.joint_pred_rews = <<main_batch, main_rew_dim>>

(* C8. For num_inputs > 0, a non-empty hiddens and a recognised            *)
(* activation, build_sequential returns the stack that repeats, per entry  *)
(* of hiddens and in order, linear, normalisation (iff layer_norm),        *)
(* nonlinearity (after the last entry iff output_activation), the widths   *)
(* chained num_inputs -> hiddens[0] -> ... -> hiddens[-1]; applied to an   *)
(* input of width num_inputs it gives an output of width hiddens[-1].      *)
C8_StackStructure ==
    (/\ ctor.kind = "build_sequential"
     /\ ctor.num_inputs > 0
     /\ Len(ctor.hiddens) > 0
     /\ ctor.activation \in RecognisedActivations)
    => /\ module.kind = "Sequential"
       /\ module.layers =
             DescribedStack(ctor.num_inputs, ctor.hiddens, 1,
                            IF ctor.activation = "relu" THEN "ReLU" ELSE "Tanh",
                            ctor.layer_norm, ctor.output_activation)
       /\ RawOutputWidth(module) = Last(ctor.hiddens)
       /\ (call.kind = "Sequential.forward" /\ Len(call.x) > 0)
          => (raised = "none" /\ result = Front(call.x) \o <<Last(ctor.hiddens)>>)

C8_Witness ==
    /\ ctor.kind = "build_sequential"
    /\ ctor.num_inputs = 2
    /\ ctor.hiddens = <<2, 1>>
    /\ ctor.activation = "tanh"
    /\ ctor.layer_norm /\ ~ctor.output_activation
    /\ Len(module.layers) = 5
    /\ call.kind = "Sequential.forward"
    /\ call.x = <<2, 2>>
    /\ result = <<2, 1>>

(* C9. Run with --save-interval 0 the training script never writes the     *)
(* model, the vocabulary or status.json.                                   *)
C9_NoSavingAtIntervalZero ==
    (train.pc # "notrun" /\ train.save_interval = 0)
    => /\ train.model_saves = 0
       /\ train.vocab_saves = 0
       /\ train.status_saves = 0

(* C10. In non-recurrent mode the encoder's layer_norm flag decides the    *)
(* normalisation of its stacks: none in the input and output stacks when   *)
(* it is false, one after every linear layer when it is true.              *)
C10_LayerNormFlag ==
    (module.kind = "VAETaskEncoder" /\ ~module.use_rnn /\ ValidEncoderArgs(ctor))
    => \A net \in {module.input_fc, module.output_fc} :
          \A k \in 1 .. Len(net.layers) :
             /\ ~ctor.layer_norm => ~IsNorm(net.layers[k])
             /\ (ctor.layer_norm /\ IsLinear(net.layers[k]))
                => (k < Len(net.layers) /\ IsNorm(net.layers[k + 1]))

(* C11. After every periodic evaluation the pair (best_success_rate,       *)
(* best_mean_return) is the success rate and mean return of the evaluation *)
(* at which the '_best' model was most recently saved, or (0, 0) if none   *)
(* was saved (so that a model is saved as '_best' exactly when its pair is *)
(* lexicographically greater than that of the saved best model).           *)
C11_BestPairIsSavedModel ==
    train.pc \in {"loop", "done"}
    => <<train.best_success_rate, train.best_mean_return>> =
          (IF train.best_saves = 0 THEN <<0, 0>> ELSE train.best_saved)

=============================================================================
